---- MODULE Spec2Model ----
(***************************************************************************)
(* Model of the run_crud_sql MCP tool of                                   *)
(* supabase/functions/hello-world/index.ts: the HTML escaper, the table    *)
(* renderer, the client-side template renderer, and the tool handler that  *)
(* translates a QueryInput into one gateway read and composes the          *)
(* response.                                                               *)
(*                                                                         *)
(* Text is a sequence of lexical items.  A character of dynamic text is a  *)
(* one-character string; a literal piece of a template (a tag, a fixed     *)
(* phrase) and an entity reference produced by the escaper are one item    *)
(* each.  White space between the literal pieces of a template is not      *)
(* modelled.                                                               *)
(***************************************************************************)
EXTENDS Integers, Sequences, FiniteSets, TLC

VARIABLES
  pc,          \* position of the handler: "idle", "awaiting", "done"
  args,        \* the QueryInput of the call
  env,         \* the process environment read by the call
  query,       \* the gateway read built by the call
  clients,     \* number of gateway clients created (createClient calls)
  reads,       \* number of gateway reads issued (await query)
  reply,       \* what the gateway read completed with
  thrown,      \* the fault thrown inside the try block, if any
  response,    \* the value the handler returned
  rows,        \* renderer input: the data handed to the renderers
  toolInput,   \* renderer input: the toolInput of the render-data message
  html,        \* output of formatResultsAsTable
  clientHtml   \* contentDiv.innerHTML after the template's renderTable

vars == <<pc, args, env, query, clients, reads, reply, thrown, response,
          rows, toolInput, html, clientHtml>>

handlerVars == <<pc, args, env, query, clients, reads, reply, thrown, response>>
renderVars == <<rows, toolInput, html, clientHtml>>

(***************************************************************************)
(* Bounds of the model.                                                    *)
(***************************************************************************)
MaxRows == 3
MaxReplyRows == 2
MaxFilter == 2
MaxLimit == 5

(***************************************************************************)
(* JavaScript values.                                                      *)
(***************************************************************************)
Undefined == [t |-> "undefined"]
Null == [t |-> "null"]
Num(n) == [t |-> "num", v |-> n]
Str(s) == [t |-> "str", v |-> s]
Arr(s) == [t |-> "arr", v |-> s]

IsNullish(x) == x.t \in {"null", "undefined"}

\* x ?? y
Coalesce(x, y) == IF IsNullish(x) THEN y ELSE x

RECURSIVE Digits(_)
Digits(n) ==
  IF n < 10
    THEN <<CASE n = 0 -> "0" [] n = 1 -> "1" [] n = 2 -> "2" [] n = 3 -> "3"
             [] n = 4 -> "4" [] n = 5 -> "5" [] n = 6 -> "6" [] n = 7 -> "7"
             [] n = 8 -> "8" [] OTHER -> "9">>
    ELSE Digits(n \div 10) \o Digits(n % 10)

\* The decimal text of an integer, as template interpolation and String() give it.
NumText(n) == IF n < 0 THEN <<"-">> \o Digits(0 - n) ELSE Digits(n)

\* String(x) for the scalar values of the model.
String(x) ==
  CASE x.t = "str" -> x.v
    [] x.t = "num" -> NumText(x.v)
    [] x.t = "null" -> <<"n", "u", "l", "l">>
    [] OTHER -> <<"u", "n", "d", "e", "f", "i", "n", "e", "d">>

RECURSIVE Flatten(_)
\* Array.prototype.join('') of a sequence of texts.
Flatten(ss) == IF ss = <<>> THEN <<>> ELSE Head(ss) \o Flatten(Tail(ss))

(***************************************************************************)
(* Result rows: an ordered mapping from column name to value, kept as the  *)
(* sequence of its entries in key order.                                   *)
(***************************************************************************)
Entry(k, x) == [k |-> k, v |-> x]

\* Object.keys(row)
ObjectKeys(row) == [i \in 1..Len(row) |-> row[i].k]

\* row[col]
Prop(row, col) ==
  IF \E i \in 1..Len(row) : row[i].k = col
    THEN row[CHOOSE i \in 1..Len(row) : row[i].k = col].v
    ELSE Undefined

(***************************************************************************)
(* escapeHtml (server side).                                               *)
(***************************************************************************)
SpecialChars == {"&", "<", ">", "\"", "'"}

escapeMap(c) ==
  CASE c = "&" -> "&amp;"
    [] c = "<" -> "&lt;"
    [] c = ">" -> "&gt;"
    [] c = "\"" -> "&quot;"
    [] c = "'" -> "&#039;"

\* Faulty variant: the quote characters are left out of the pattern.
escapeHtmlNoQuote(text) ==
  [i \in 1..Len(text) |->
     IF text[i] \in {"&", "<", ">"} THEN escapeMap(text[i]) ELSE text[i]]

escapeHtml(text) ==
  [i \in 1..Len(text) |->
     IF text[i] \in SpecialChars THEN escapeMap(text[i]) ELSE text[i]]

(***************************************************************************)
(* formatResultsAsTable: the HTML document for MCP-UI hosts.               *)
(* data is Null or Arr(sequence of rows).                                  *)
(***************************************************************************)
rowText == <<" ", "r", "o", "w">>
returnedText == <<" ", "r", "e", "t", "u", "r", "n", "e", "d">>
nullText == <<"N", "U", "L", "L">>

\* data.length !== 1 ? 's' : ''
PluralS(n) == IF n # 1 THEN <<"s">> ELSE <<>>

\* !data || data.length === 0
IsEmptyData(data) == data.t \in {"null", "undefined"} \/ Len(data.v) = 0

noResultsDocument ==
  <<"<!DOCTYPE html>", "<html>", "<head>", "</head>", "<body>",
    "<div class=\"sql-results\">",
    "<p class=\"no-results\">", "0 result", "</p>",
    "</div>", "</body>", "</html>">>

\* columns.map(col => `<th>${escapeHtml(col)}</th>`).join('')
headerCells(columns) ==
  Flatten([j \in 1..Len(columns) |->
             <<"<th>">> \o escapeHtml(columns[j]) \o <<"</th>">>])

\* Faulty variant: the ?? 'NULL' fallback is missing.
dataCellsNoFallback(row, columns) ==
  Flatten([j \in 1..Len(columns) |->
             <<"<td>">>
             \o escapeHtml(String(Prop(row, columns[j])))
             \o <<"</td>">>])

\* columns.map(col => `<td>${escapeHtml(String(row[col] ?? 'NULL'))}</td>`).join('')
dataCells(row, columns) ==
  Flatten([j \in 1..Len(columns) |->
             <<"<td>">>
             \o escapeHtml(String(Coalesce(Prop(row, columns[j]), Str(nullText))))
             \o <<"</td>">>])

\* Faulty variant: the rows come out in reverse order.
dataRowsReversed(data, columns) ==
  Flatten([i \in 1..Len(data) |->
             <<"<tr>">> \o dataCells(data[Len(data) + 1 - i], columns) \o <<"</tr>">>])

\* data.map(row => `<tr>...</tr>`).join('')
dataRows(data, columns) ==
  Flatten([i \in 1..Len(data) |->
             <<"<tr>">> \o dataCells(data[i], columns) \o <<"</tr>">>])

\* `<strong>${data.length}</strong> row${data.length !== 1 ? 's' : ''} returned`
\* Faulty variant: the plural is not conditional.
resultsInfoAlwaysPlural(n) ==
  <<"<div class=\"results-info\">", "<strong>">> \o NumText(n) \o <<"</strong>">>
  \o rowText \o <<"s">> \o returnedText \o <<"</div>">>

resultsInfo(n) ==
  <<"<div class=\"results-info\">", "<strong>">> \o NumText(n) \o <<"</strong>">>
  \o rowText \o PluralS(n) \o returnedText \o <<"</div>">>

tableDocument(data) ==
  LET columns == ObjectKeys(data[1])
  IN  <<"<!DOCTYPE html>", "<html>", "<head>", "</head>", "<body>",
        "<div class=\"sql-results\">">>
      \o resultsInfo(Len(data))
      \o <<"<table class=\"sql-table\">", "<thead>", "<tr>">>
      \o headerCells(columns)
      \o <<"</tr>", "</thead>", "<tbody>">>
      \o dataRows(data, columns)
      \o <<"</tbody>", "</table>", "</div>", "</body>", "</html>">>

\* Faulty variant: only !data takes the placeholder branch.
formatResultsAlwaysTable(data) ==
  IF data.t \in {"null", "undefined"} THEN noResultsDocument ELSE
  IF Len(data.v) = 0
    THEN <<"<!DOCTYPE html>", "<html>", "<head>", "</head>", "<body>",
           "<div class=\"sql-results\">">>
         \o resultsInfo(0)
         \o <<"<table class=\"sql-table\">", "<thead>", "<tr>", "</tr>",
              "</thead>", "<tbody>", "</tbody>", "</table>", "</div>",
              "</body>", "</html>">>
    ELSE tableDocument(data.v)

formatResultsAsTable(data) ==
  IF IsEmptyData(data) THEN noResultsDocument ELSE tableDocument(data.v)

(***************************************************************************)
(* Inputs of the renderers.                                                *)
(***************************************************************************)
ColId == <<"i", "d">>
ColName == <<"n", "\"", "<">>

ValuesOf(col) ==
  IF col = ColId
    THEN {Num(1), Null}
    ELSE {Str(<<"<", "&", ">", "\"", "'", "x">>)}

\* The rows a gateway may return: every ordered mapping over the two columns.
RowSet ==
  {<<>>}
  \cup {<<Entry(c, x)>> : c \in {ColId}, x \in ValuesOf(ColId)}
  \cup {<<Entry(c, x)>> : c \in {ColName}, x \in ValuesOf(ColName)}
  \cup {<<Entry(ColId, x), Entry(ColName, y)>> :
          x \in ValuesOf(ColId), y \in ValuesOf(ColName)}
  \cup {<<Entry(ColName, y), Entry(ColId, x)>> :
          x \in ValuesOf(ColId), y \in ValuesOf(ColName)}

SeqsUpTo(S, n) == UNION {[1..m -> S] : m \in 0..n}

DataSet == {Null} \cup {Arr(rs) : rs \in SeqsUpTo(RowSet, MaxRows)}

(***************************************************************************)
(* The Apps SDK template (createAppsSdkTemplate): the script that runs in  *)
(* the host's iframe.                                                      *)
(***************************************************************************)
Obj(entries) == [t |-> "obj", v |-> entries]

\* JavaScript truthiness of the values of the model.
Truthy(x) ==
  CASE x.t \in {"null", "undefined"} -> FALSE
    [] x.t = "num" -> x.v # 0
    [] x.t = "str" -> Len(x.v) > 0
    [] OTHER -> TRUE

\* x || y
OrElse(x, y) == IF Truthy(x) THEN x ELSE y

\* JSON.stringify of a string: quoted, with " and \ escaped.
JsonString(s) ==
  <<"\"">>
  \o Flatten([i \in 1..Len(s) |->
                IF s[i] \in {"\"", "\\"} THEN <<"\\", s[i]>> ELSE <<s[i]>>])
  \o <<"\"">>

JsonScalar(x) ==
  CASE x.t = "str" -> JsonString(x.v)
    [] x.t = "num" -> NumText(x.v)
    [] OTHER -> <<"n", "u", "l", "l">>

\* JSON.stringify of an object of scalars.
JsonStringify(o) ==
  <<"{">>
  \o Flatten([i \in 1..Len(o.v) |->
                (IF i > 1 THEN <<",">> ELSE <<>>)
                \o JsonString(o.v[i].k) \o <<":">> \o JsonScalar(o.v[i].v)])
  \o <<"}">>

clientEscapeMap(c) ==
  CASE c = "&" -> "&amp;"
    [] c = "<" -> "&lt;"
    [] c = ">" -> "&gt;"
    [] c = "\"" -> "&quot;"
    [] c = "'" -> "&#039;"

\* Faulty variant: the template's pattern lacks the apostrophe.
clientEscapeHtmlNoApostrophe(x) ==
  LET text == String(x)
  IN  [i \in 1..Len(text) |->
         IF text[i] \in {"&", "<", ">", "\""}
           THEN clientEscapeMap(text[i]) ELSE text[i]]

\* The template's escapeHtml: String(text).replace(/[&<>"']/g, m => map[m])
clientEscapeHtml(x) ==
  LET text == String(x)
  IN  [i \in 1..Len(text) |->
         IF text[i] \in {"&", "<", ">", "\"", "'"}
           THEN clientEscapeMap(text[i]) ELSE text[i]]

\* `<strong>${data.length}</strong> row${data.length !== 1 ? 's' : ''} returned`
clientResultsInfo(n) ==
  <<"<div class=\"results-info\">", "<strong>">> \o NumText(n) \o <<"</strong>">>
  \o <<" ", "r", "o", "w">> \o (IF n # 1 THEN <<"s">> ELSE <<>>)
  \o <<" ", "r", "e", "t", "u", "r", "n", "e", "d">> \o <<"</div>">>

loadingContent == <<"Loading query results...">>

unknownText == <<"u", "n", "k", "n", "o", "w", "n">>

\* `<strong>Table:</strong> ${escapeHtml(toolInput.table || 'unknown')}`
clientTableLine(ti) ==
  <<"<strong>", "Table:", "</strong>">>
  \o clientEscapeHtml(OrElse(ti.table, Str(unknownText)))

\* toolInput.filter ? escapeHtml(JSON.stringify(toolInput.filter)) : 'none'
clientFilterOrNone(ti) ==
  IF Truthy(ti.filter)
    THEN clientEscapeHtml(Str(JsonStringify(ti.filter)))
    ELSE <<"none">>

\* toolInput.filter ? '<strong>Filter:</strong> ' + escapeHtml(...) + '<br>' : ''
clientFilterLine(ti) ==
  IF Truthy(ti.filter)
    THEN <<"<strong>", "Filter:", "</strong>">>
         \o clientEscapeHtml(Str(JsonStringify(ti.filter))) \o <<"<br>">>
    ELSE <<>>

\* toolInput.limit ? '<strong>Limit:</strong> ' + toolInput.limit : ''
clientLimitLine(ti) ==
  IF Truthy(ti.limit)
    THEN <<"<strong>", "Limit:", "</strong>">> \o String(ti.limit)
    ELSE <<>>

clientHeaderCells(columns) ==
  Flatten([j \in 1..Len(columns) |->
             <<"<th>">> \o clientEscapeHtml(Str(columns[j])) \o <<"</th>">>])

\* columns.map(col => `<td>${escapeHtml(row[col] ?? 'NULL')}</td>`).join('')
clientDataCells(row, columns) ==
  Flatten([j \in 1..Len(columns) |->
             <<"<td>">>
             \o clientEscapeHtml(Coalesce(Prop(row, columns[j]), Str(nullText)))
             \o <<"</td>">>])

clientDataRows(data, columns) ==
  Flatten([i \in 1..Len(data) |->
             <<"<tr>">> \o clientDataCells(data[i], columns) \o <<"</tr>">>])

\* renderTable(data, toolInput): the value assigned to contentDiv.innerHTML
renderTable(data, ti) ==
  IF IsEmptyData(data)
    THEN <<"<div class=\"query-info\">">>
         \o clientTableLine(ti) \o <<"<br>">>
         \o <<"<strong>", "Filter:", "</strong>">> \o clientFilterOrNone(ti)
         \o <<"</div>">>
         \o <<"<div class=\"no-results\">", "No results found", "</div>">>
         \o <<"<div class=\"table-name\">">> \o clientTableLine(ti)
         \o <<"</div>">>
    ELSE LET columns == ObjectKeys(data.v[1])
         IN  <<"<div class=\"query-info\">">>
             \o clientTableLine(ti) \o <<"<br>">>
             \o <<"<strong>", "Columns:", "</strong>">>
             \o clientEscapeHtml(OrElse(ti.columns, Str(<<"*">>))) \o <<"<br>">>
             \o clientFilterLine(ti)
             \o clientLimitLine(ti)
             \o <<"</div>">>
             \o clientResultsInfo(Len(data.v))
             \o <<"<table class=\"sql-table\">", "<thead>", "<tr>">>
             \o clientHeaderCells(columns)
             \o <<"</tr>", "</thead>", "<tbody>">>
             \o clientDataRows(data.v, columns)
             \o <<"</tbody>", "</table>">>

\* The message listener: toolOutput?.results || [] and toolInput || {}
onRenderData(ti, results) == renderTable(OrElse(results, Arr(<<>>)), ti)

QueryInput(table, columns, filter, limit) ==
  [table |-> table, columns |-> columns, filter |-> filter, limit |-> limit]

\* toolInput || {} when the message carries no toolInput
emptyToolInput == QueryInput(Undefined, Undefined, Undefined, Undefined)

TableJedi == <<"j", "e", "d", "i">>
TableOdd == <<"t", "<", "'", "&">>
ColRank == <<"r", ">", "k">>

ToolInputSet ==
  { emptyToolInput,
    QueryInput(Str(TableJedi), Undefined, Obj(<<>>), Num(0)),
    QueryInput(Str(TableOdd), Str(<<"i", "d", ",", "\"", "n">>),
               Obj(<<Entry(ColRank, Str(<<"M", "\"", "&">>)), Entry(ColId, Num(1))>>),
               Num(2)) }

(***************************************************************************)
(* The renderers as a state machine: the input is drawn at Init, the       *)
(* server renders it once and the template renders it once.                *)
(***************************************************************************)
\* No fault was thrown inside the try block.
NoFault == [at |-> "none"]

NoCall ==
  /\ pc = "idle"
  /\ args = emptyToolInput
  /\ env = [url |-> Undefined, key |-> Undefined]
  /\ query = Undefined
  /\ clients = 0
  /\ reads = 0
  /\ reply = Undefined
  /\ thrown = NoFault
  /\ response = Undefined

RenderInit ==
  /\ NoCall
  /\ rows \in DataSet
  /\ toolInput = emptyToolInput
  /\ html = <<>>
  /\ clientHtml = loadingContent

\* The server renders the rows (index.ts line 486).
FormatResults ==
  /\ html = <<>>
  /\ html' = formatResultsAsTable(rows)
  /\ UNCHANGED <<handlerVars, rows, toolInput, clientHtml>>

\* The host answers ui-request-render-data; the listener re-renders.
RenderData ==
  /\ clientHtml = loadingContent
  /\ \E ti \in ToolInputSet :
       /\ toolInput' = ti
       /\ clientHtml' = onRenderData(ti, rows)
  /\ UNCHANGED <<handlerVars, rows, html>>

RenderNext == FormatResults \/ RenderData

RenderSpec == RenderInit /\ [][RenderNext]_vars

(***************************************************************************)
(* Reading markup back: what a consumer of the HTML sees.                  *)
(***************************************************************************)
Items(s) == {s[i] : i \in 1..Len(s)}

FirstIndex(s, stops) == CHOOSE i \in 1..Len(s) :
                          /\ s[i] \in stops
                          /\ \A j \in 1..(i - 1) : s[j] \notin stops

\* The part of s after the first occurrence of tok (empty when tok is absent).
After(s, tok) ==
  IF tok \in Items(s) THEN SubSeq(s, FirstIndex(s, {tok}) + 1, Len(s)) ELSE <<>>

\* The part of s before the first item of stops (all of s when none occurs).
Upto(s, stops) ==
  IF Items(s) \cap stops # {} THEN SubSeq(s, 1, FirstIndex(s, stops) - 1) ELSE s

RECURSIVE Segments(_, _, _)
\* The contents of the elements opened by open and closed by close, in order.
Segments(s, open, close) ==
  IF open \notin Items(s)
    THEN <<>>
    ELSE LET rest == After(s, open)
         IN  <<Upto(rest, {close})>> \o Segments(After(rest, close), open, close)

WithoutTags(s) == SelectSeq(s, LAMBDA x : x \notin {"<strong>", "</strong>"})

HasTable(h) == "<table class=\"sql-table\">" \in Items(h)

\* The header cells of the table of h.
HeaderOf(h) == Segments(Upto(After(h, "<thead>"), {"</thead>"}), "<th>", "</th>")

\* The data rows of the table of h, each the sequence of its cells.
BodyOf(h) ==
  LET trs == Segments(Upto(After(h, "<tbody>"), {"</tbody>"}), "<tr>", "</tr>")
  IN  [i \in 1..Len(trs) |-> Segments(trs[i], "<td>", "</td>")]

\* The text of the row count label of h.
LabelOf(h) ==
  WithoutTags(Upto(After(h, "<div class=\"results-info\">"), {"</div>"}))

Rendered == html # <<>>
ClientRendered == clientHtml # loadingContent
NonEmptyRows == rows.t = "arr" /\ Len(rows.v) > 0

(***************************************************************************)
(* C8: for rows that are empty or absent (null) formatResultsAsTable emits *)
(* the "no results" placeholder block and no <table> element; for          *)
(* non-empty rows it emits a table and not the placeholder.                *)
(***************************************************************************)
HasServerPlaceholder(h) ==
  \E i \in 1..(Len(h) - 2) :
    /\ h[i] = "<p class=\"no-results\">"
    /\ h[i + 1] = "0 result"
    /\ h[i + 2] = "</p>"

C8_PlaceholderOrTable ==
  Rendered =>
    IF rows = Null \/ (rows.t = "arr" /\ rows.v = <<>>)
      THEN HasServerPlaceholder(html) /\ ~HasTable(html)
      ELSE HasTable(html) /\ ~HasServerPlaceholder(html)

C8_Witness == Rendered /\ rows = Arr(<<>>) /\ HasServerPlaceholder(html)

(***************************************************************************)
(* C9: for n > 0 rows the row count label reads "1 row returned" when      *)
(* n = 1 and "n rows returned" for every other n.                          *)
(***************************************************************************)
OneRowReturned ==
  <<"1", " ", "r", "o", "w", " ", "r", "e", "t", "u", "r", "n", "e", "d">>

RowsReturned(n) ==
  NumText(n)
  \o <<" ", "r", "o", "w", "s", " ", "r", "e", "t", "u", "r", "n", "e", "d">>

C9_RowCountLabel ==
  (Rendered /\ NonEmptyRows) =>
    LabelOf(html) = IF Len(rows.v) = 1 THEN OneRowReturned
                                        ELSE RowsReturned(Len(rows.v))

C9_Witness ==
  Rendered /\ NonEmptyRows /\ Len(rows.v) = 1 /\ LabelOf(html) = OneRowReturned

(***************************************************************************)
(* C10: every dynamic value placed into markup (column names, cell values, *)
(* table name, serialized filter) is escaped: at the position of each of   *)
(* its characters the markup holds the entity for & < > " ' and the        *)
(* character itself otherwise, and no raw & < > " ' of a value appears.    *)
(***************************************************************************)
EntityOf(c) ==
  CASE c = "<" -> "&lt;"
    [] c = ">" -> "&gt;"
    [] c = "&" -> "&amp;"
    [] c = "\"" -> "&quot;"
    [] c = "'" -> "&#039;"
    [] OTHER -> c

EscapedAs(r, text) ==
  /\ Len(r) = Len(text)
  /\ \A i \in 1..Len(text) : r[i] = EntityOf(text[i])

\* The text of a cell: the value as text, NULL for null and for a missing key.
CellText(row, col) ==
  IF IsNullish(Prop(row, col)) THEN nullText ELSE String(Prop(row, col))

TableEscaped(h, data) ==
  LET cols == ObjectKeys(data[1])
      header == HeaderOf(h)
      body == BodyOf(h)
  IN  /\ Len(header) = Len(cols)
      /\ \A j \in 1..Len(cols) : EscapedAs(header[j], cols[j])
      /\ Len(body) = Len(data)
      /\ \A i \in 1..Len(data) :
           /\ Len(body[i]) = Len(cols)
           /\ \A j \in 1..Len(cols) :
                EscapedAs(body[i][j], CellText(data[i], cols[j]))

ClientTableText(h) == Upto(After(After(h, "Table:"), "</strong>"), {"<br>"})

ClientFilterText(h) ==
  Upto(After(After(h, "Filter:"), "</strong>"), {"<br>", "</div>"})

ClientColumnsText(h) == Upto(After(After(h, "Columns:"), "</strong>"), {"<br>"})

C10_DynamicValuesEscaped ==
  /\ Rendered =>
       /\ Items(html) \cap SpecialChars = {}
       /\ NonEmptyRows => TableEscaped(html, rows.v)
  /\ ClientRendered =>
       /\ Items(clientHtml) \cap SpecialChars = {}
       /\ EscapedAs(ClientTableText(clientHtml),
                    IF toolInput.table.t = "str" /\ toolInput.table.v # <<>>
                      THEN toolInput.table.v ELSE unknownText)
       /\ toolInput.filter.t = "obj" =>
            EscapedAs(ClientFilterText(clientHtml), JsonStringify(toolInput.filter))
       /\ NonEmptyRows =>
            /\ TableEscaped(clientHtml, rows.v)
            /\ toolInput.columns.t = "str" =>
                 EscapedAs(ClientColumnsText(clientHtml), toolInput.columns.v)

C10_Witness ==
  /\ Rendered /\ ClientRendered /\ NonEmptyRows
  /\ {"&lt;", "&gt;", "&amp;", "&quot;", "&#039;"} \subseteq Items(html)
  /\ toolInput.table = Str(TableOdd)
  /\ toolInput.filter.t = "obj" /\ toolInput.filter.v # <<>>
  /\ "&#039;" \in Items(ClientTableText(clientHtml))
  /\ "&quot;" \in Items(ClientFilterText(clientHtml))

(***************************************************************************)
(* The run_crud_sql handler.                                               *)
(***************************************************************************)
Bool(b) == [t |-> "bool", v |-> b]

\* A thrown value: an Error with a message, or any other value.
ErrorObject(message) == [t |-> "error", message |-> message]

\* err instanceof Error ? err.message : String(err)
FaultMessage(err) == IF err.t = "error" THEN String(err.message) ELSE String(err)

TextItem(text) == [type |-> "text", text |-> text]

\* createUIResource({uri, content: {type: 'rawHtml', htmlString}, encoding: 'text'})
createUIResource(uri, htmlString) ==
  [type |-> "resource",
   resource |-> [uri |-> uri, mimeType |-> "text/html", text |-> htmlString]]

ToolResponse(content, isError, structuredContent) ==
  [content |-> content, isError |-> isError,
   structuredContent |-> structuredContent]

\* index.ts lines 445-451
configErrorResponse ==
  ToolResponse(
    <<TextItem(<<"Error: Supabase credentials not found. Please set SUPABASE_URL and SUPABASE_ANON_KEY environment variables.">>)>>,
    Bool(TRUE), Undefined)

\* index.ts lines 475-481
\* Faulty variant: the error response also carries structuredContent.
databaseErrorWithContent(error) ==
  ToolResponse(<<TextItem(<<"Database Error: ">> \o String(error.message))>>,
               Bool(TRUE),
               [results |-> Null, rowCount |-> Num(0)])

databaseErrorResponse(error) ==
  ToolResponse(<<TextItem(<<"Database Error: ">> \o String(error.message))>>,
               Bool(TRUE), Undefined)

\* index.ts lines 517-524
\* Faulty variant: the catch block forgets isError.
catchResponseNoFlag(err) ==
  ToolResponse(<<TextItem(<<"Error executing operation: ">> \o FaultMessage(err))>>,
               Undefined, Undefined)

catchResponse(err) ==
  ToolResponse(<<TextItem(<<"Error executing operation: ">> \o FaultMessage(err))>>,
               Bool(TRUE), Undefined)

\* !supabaseUrl || !supabaseKey
\* Faulty variant: compares with undefined, so an empty value passes.
credentialsMissingUnsetOnly(e) == e.url = Undefined \/ e.key = Undefined

credentialsMissing(e) == ~Truthy(e.url) \/ ~Truthy(e.key)

\* supabase.from(table).select(columns)
fromSelect(table, columns) ==
  [table |-> table, select |-> columns, eqs |-> <<>>, limit |-> Undefined]

\* query.eq(key, value)
eq(q, key, value) ==
  [q EXCEPT !.eqs = Append(@, [column |-> key, value |-> value])]

\* query.limit(n)
limit(q, n) == [q EXCEPT !.limit = n]

RECURSIVE applyFiltersFrom(_, _, _)
applyFiltersFrom(q, entries, i) ==
  IF i > Len(entries)
    THEN q
    ELSE applyFiltersFrom(eq(q, entries[i].k, entries[i].v), entries, i + 1)

\* for (const [key, value] of Object.entries(args.filter)) query = query.eq(key, value)
\* Faulty variant: each eq is applied to the base query, so only the last stays.
applyFiltersLastWins(q, entries) ==
  IF entries = <<>>
    THEN q
    ELSE eq(q, entries[Len(entries)].k, entries[Len(entries)].v)

applyFilters(q, entries) == applyFiltersFrom(q, entries, 1)

\* if (args.limit)
\* Faulty variant: tests presence, not truthiness.
limitGivenEvenZero(a) == a.limit # Undefined

limitGiven(a) == Truthy(a.limit)

\* index.ts lines 458-470: the read as built before it is awaited
buildQuery(a) ==
  LET q0 == fromSelect(a.table, OrElse(a.columns, Str(<<"*">>)))
      q1 == IF Truthy(a.filter) THEN applyFilters(q0, a.filter.v) ELSE q0
  IN  IF limitGiven(a) THEN limit(q1, a.limit) ELSE q1

\* results?.length
OptLength(results) ==
  IF IsNullish(results) THEN Undefined ELSE Num(Len(results.v))

\* Faulty variant: the plural is decided by results.length > 1, so 0 reads "0 row".
summaryTextPluralAboveOne(results, table) ==
  <<"Query returned ">> \o String(OrElse(OptLength(results), Num(0)))
  \o <<" row">>
  \o (IF ~IsNullish(results) /\ Len(results.v) > 1 THEN <<"s">> ELSE <<>>)
  \o <<" from table '">> \o String(table) \o <<"'.">>

\* `Query returned ${results?.length || 0} row${results?.length !== 1 ? 's' : ''} from table '${args.table}'.`
summaryText(results, table) ==
  <<"Query returned ">> \o String(OrElse(OptLength(results), Num(0)))
  \o <<" row">> \o (IF OptLength(results) # Num(1) THEN <<"s">> ELSE <<>>)
  \o <<" from table '">> \o String(table) \o <<"'.">>

\* `ui://supabase/${args.table}/select`
resourceUri(table) == <<"ui://supabase/">> \o String(table) \o <<"/select">>

\* index.ts lines 500-516
successResponse(a, results, tableHtml) ==
  ToolResponse(
    <<TextItem(summaryText(results, a.table)),
      createUIResource(resourceUri(a.table), tableHtml)>>,
    Undefined,
    [results |-> results,
     rowCount |-> OrElse(OptLength(results), Num(0)),
     tableName |-> a.table,
     columns |-> OrElse(a.columns, Str(<<"*">>)),
     filter |-> a.filter])

(***************************************************************************)
(* Inputs of the handler.                                                  *)
(***************************************************************************)
ColStatus == <<"s", "t">>

FilterKeys == {ColId, ColRank, ColStatus}

FilterValue(k) ==
  CASE k = ColId -> Num(1)
    [] k = ColRank -> Str(<<"M", "\"", "&">>)
    [] OTHER -> Str(<<"o", "n">>)

\* The entry sequences of the filter objects of at most MaxFilter keys.
FilterEntries ==
  {[i \in 1..Len(ks) |-> Entry(ks[i], FilterValue(ks[i]))] :
     ks \in {q \in SeqsUpTo(FilterKeys, MaxFilter) :
               \A i, j \in 1..Len(q) : q[i] = q[j] => i = j}}

FilterSet == {Undefined} \cup {Obj(es) : es \in FilterEntries}

LimitSet == {Undefined} \cup {Num(n) : n \in (0 - 1)..MaxLimit}

ArgsSet ==
  {QueryInput(tc[1], tc[2], f, l) :
     tc \in {<<Str(TableJedi), Undefined>>, <<Str(TableOdd), Str(ColId)>>},
     f \in FilterSet, l \in LimitSet}

\* Deno.env.get gives undefined for an unset variable.
EnvValues == {Undefined, Str(<<>>), Str(<<"k">>)}
EnvSet == {[url |-> u, key |-> k] : u \in EnvValues, k \in EnvValues}

ThrownSet == {ErrorObject(Str(<<"b", "o", "o", "m">>)), Str(<<"o", "o", "p", "s">>)}

Fault(at, err) == [at |-> at, err |-> err]
FaultsAt(steps) == {NoFault} \cup {Fault(at, x) : at \in steps, x \in ThrownSet}

ReplyRowSet ==
  { <<Entry(ColId, Num(1))>>,
    <<Entry(ColId, Null), Entry(ColName, Str(<<"<", "&", ">", "\"", "'", "x">>))>>,
    <<Entry(ColName, Str(<<"<", "&", ">", "\"", "'", "x">>))>> }

ReplyDataSet == {Null} \cup {Arr(rs) : rs \in SeqsUpTo(ReplyRowSet, MaxReplyRows)}

GatewayError == [t |-> "obj", message |-> Str(<<"d", "e", "n", "y", "<">>)]

Resolved(data, error) == [kind |-> "resolved", data |-> data, error |-> error]
Rejected(err) == [kind |-> "rejected", err |-> err]

\* What awaiting the read can give: { data, error } or a rejection.
ReplySet ==
  {Resolved(d, Null) : d \in ReplyDataSet}
  \cup {Resolved(d, GatewayError) : d \in {Null, Arr(<<>>), Arr(<<<<Entry(ColId, Num(1))>>>>)}}
  \cup {Rejected(x) : x \in ThrownSet}

(***************************************************************************)
(* The handler as a state machine: one call, suspended at `await query`.   *)
(***************************************************************************)
Init ==
  /\ NoCall
  /\ rows = Null
  /\ toolInput = emptyToolInput
  /\ html = <<>>
  /\ clientHtml = loadingContent

\* Faulty variant: an error after the read makes the handler read once more.
ReturnAfterRetry(r, f, madeClients, madeReads) ==
  /\ pc' = "done"
  /\ response' = r
  /\ thrown' = f
  /\ clients' = clients + madeClients
  /\ reads' = reads + madeReads
                + (IF r.isError = Bool(TRUE) /\ reads = 1 THEN 1 ELSE 0)

\* A return statement of the handler: the call is over.
Return(r, f, madeClients, madeReads) ==
  /\ pc' = "done"
  /\ response' = r
  /\ thrown' = f
  /\ clients' = clients + madeClients
  /\ reads' = reads + madeReads

\* index.ts lines 439-472: from the call to the await of the read.
Invoke ==
  /\ pc = "idle"
  /\ \E a \in ArgsSet, e \in EnvSet, f \in FaultsAt({"env", "createClient", "build"}) :
       /\ args' = a
       /\ env' = e
       /\ IF f.at = "env"
            THEN Return(catchResponse(f.err), f, 0, 0) /\ UNCHANGED query
          ELSE IF credentialsMissing(e)
            THEN Return(configErrorResponse, NoFault, 0, 0) /\ UNCHANGED query
          ELSE IF f.at = "createClient"
            THEN Return(catchResponse(f.err), f, 0, 0) /\ UNCHANGED query
          ELSE IF f.at = "build"
            THEN Return(catchResponse(f.err), f, 1, 0) /\ UNCHANGED query
          ELSE /\ pc' = "awaiting"
               /\ clients' = clients + 1
               /\ query' = buildQuery(a)
               /\ reads' = reads + 1
               /\ UNCHANGED <<thrown, response>>
  /\ UNCHANGED <<reply, renderVars>>

\* index.ts lines 472-525: the read completes and the handler resumes.
GatewayReply ==
  /\ pc = "awaiting"
  /\ \E r \in ReplySet, f \in FaultsAt({"render", "compose"}) :
       /\ reply' = r
       /\ IF r.kind = "rejected"
            THEN Return(catchResponse(r.err), Fault("await", r.err), 0, 0)
          ELSE IF Truthy(r.error)
            THEN Return(databaseErrorResponse(r.error), NoFault, 0, 0)
          ELSE IF f.at \in {"render", "compose"}
            THEN Return(catchResponse(f.err), f, 0, 0)
          ELSE Return(successResponse(args, r.data, formatResultsAsTable(r.data)),
                      NoFault, 0, 0)
  /\ UNCHANGED <<args, env, query, renderVars>>

Next == Invoke \/ GatewayReply

Spec == Init /\ [][Next]_vars

(***************************************************************************)
(* Reading a response back.                                                *)
(***************************************************************************)
Done == pc = "done"

\* sub occurs in text as a contiguous piece.
Contains(text, sub) ==
  \E k \in 0..(Len(text) - Len(sub)) : SubSeq(text, k + 1, k + Len(sub)) = sub

TextItems(r) == {r.content[i] : i \in {j \in 1..Len(r.content) : r.content[j].type = "text"}}

HasResource(r) == \E i \in 1..Len(r.content) : r.content[i].type = "resource"

\* The HTML of the embedded UI resource of a response.
ResourceHtml(r) ==
  r.content[CHOOSE i \in 1..Len(r.content) : r.content[i].type = "resource"].resource.text

Succeeded == Done /\ response.isError # Bool(TRUE) /\ response.structuredContent # Undefined

GatewayErrored == Done /\ reply # Undefined /\ reply.kind = "resolved" /\ reply.error # Null

(***************************************************************************)
(* C1: the handler never lets a fault escape: it always returns a response *)
(* with a non-empty content list, and when a fault was thrown (reading the *)
(* environment, creating the client, building the query, awaiting the      *)
(* gateway, rendering, composing) the response has isError = true and a    *)
(* text item carrying the fault's message.                                 *)
(***************************************************************************)
ThrownMessage(err) == IF err.t = "error" THEN err.message.v ELSE err.v

C1_NoFaultEscapes ==
  Done =>
    /\ response # Undefined
    /\ Len(response.content) > 0
    /\ thrown # NoFault =>
         /\ response.isError = Bool(TRUE)
         /\ \E item \in TextItems(response) :
              Contains(item.text, ThrownMessage(thrown.err))

C1_Witness ==
  /\ Done /\ thrown.at = "render" /\ thrown.err.t = "str"
  /\ response.isError = Bool(TRUE)

(***************************************************************************)
(* C2: when SUPABASE_URL or SUPABASE_ANON_KEY is unset or empty at the     *)
(* time of a call, the response has isError = true, no gateway client is   *)
(* created and no gateway read is issued.                                  *)
(***************************************************************************)
Missing(x) == x = Undefined \/ x = Str(<<>>)

C2_MissingCredentials ==
  (pc # "idle" /\ (Missing(env.url) \/ Missing(env.key))) =>
    /\ Done
    /\ response.isError = Bool(TRUE)
    /\ clients = 0
    /\ reads = 0
    /\ query = Undefined

C2_Witness ==
  /\ Done /\ env.url = Str(<<"k">>) /\ env.key = Str(<<>>)
  /\ response = configErrorResponse /\ clients = 0 /\ reads = 0

(***************************************************************************)
(* C3: when the gateway read completes with an error object, the response  *)
(* has isError = true, its text contains the gateway's message unmodified, *)
(* and it carries no structuredContent and no embedded UI resource,        *)
(* whatever data came with the error.                                      *)
(***************************************************************************)
C3_GatewayError ==
  GatewayErrored =>
    /\ response.isError = Bool(TRUE)
    /\ \E item \in TextItems(response) : Contains(item.text, reply.error.message.v)
    /\ response.structuredContent = Undefined
    /\ ~HasResource(response)

C3_Witness ==
  /\ GatewayErrored /\ reply.data.t = "arr" /\ Len(reply.data.v) = 1
  /\ response.isError = Bool(TRUE)

(***************************************************************************)
(* C4: in every response that carries structuredContent, rowCount equals   *)
(* the length of results, also for an empty sequence and for null data     *)
(* returned without an error.                                              *)
(***************************************************************************)
C4_RowCountEqualsLength ==
  (Done /\ response.structuredContent # Undefined) =>
    /\ response.structuredContent.results.t = "arr"
    /\ response.structuredContent.rowCount
         = Num(Len(response.structuredContent.results.v))

(***************************************************************************)
(* C5: in every successful response the HTML has exactly one data row per  *)
(* element of structuredContent.results, in the same order, and every      *)
(* key/value pair of every result row is shown in that row's cells, also   *)
(* when the rows of one result have different key sets.                    *)
(***************************************************************************)
ResultRows(r) ==
  IF r.structuredContent.results.t = "arr"
    THEN r.structuredContent.results.v ELSE <<>>

\* Row i of the table of h shows the pair (col, x): some column headed col
\* holds the text of x in that row.
Shows(h, i, col, x) ==
  LET header == HeaderOf(h)
      body == BodyOf(h)
  IN  \E j \in 1..Len(header) :
        /\ EscapedAs(header[j], col)
        /\ j <= Len(body[i])
        /\ EscapedAs(body[i][j], IF IsNullish(x) THEN nullText ELSE String(x))

OneRowPerResult(h, results) == Len(BodyOf(h)) = Len(results)

C5_HtmlShowsEveryPair ==
  Succeeded =>
    LET h == ResourceHtml(response)
        results == ResultRows(response)
    IN  /\ OneRowPerResult(h, results)
        /\ \A i \in 1..Len(results) : \A e \in 1..Len(results[i]) :
             Shows(h, i, results[i][e].k, results[i][e].v)

\* C5 as amended: one data row per element of results, in the same order, and
\* row i shows, in the order of the first row's keys, one cell per key of the
\* first row: the pair of results[i] for that key, NULL when results[i] lacks
\* the key; a pair whose key the first row lacks is not shown.
C5_HtmlShowsFirstRowColumns ==
  Succeeded =>
    LET h == ResourceHtml(response)
        results == ResultRows(response)
        body == BodyOf(h)
    IN  /\ OneRowPerResult(h, results)
        /\ \A i \in 1..Len(results) :
             LET cols == ObjectKeys(results[1])
             IN  /\ Len(body[i]) = Len(cols)
                 /\ \A j \in 1..Len(cols) :
                      /\ EscapedAs(HeaderOf(h)[j], cols[j])
                      /\ EscapedAs(body[i][j], CellText(results[i], cols[j]))

C5_Witness ==
  /\ Succeeded
  /\ Len(ResultRows(response)) = 2
  /\ ObjectKeys(ResultRows(response)[1]) = <<ColId>>
  /\ ObjectKeys(ResultRows(response)[2]) = <<ColId, ColName>>
  /\ Len(BodyOf(ResourceHtml(response))) = 2

(***************************************************************************)
(* C6: for a filter of k keys the translator attaches exactly k equality   *)
(* constraints to the gateway read, one per key with that key's value, in  *)
(* the filter's entry order; an absent or empty filter attaches none.      *)
(***************************************************************************)
ReadBuilt == query # Undefined

FilterPairs(a) == IF a.filter.t = "obj" THEN a.filter.v ELSE <<>>

C6_OneConstraintPerKey ==
  ReadBuilt =>
    /\ Len(query.eqs) = Len(FilterPairs(args))
    /\ \A i \in 1..Len(query.eqs) :
         /\ query.eqs[i].column = FilterPairs(args)[i].k
         /\ query.eqs[i].value = FilterPairs(args)[i].v

C6_Witness ==
  /\ ReadBuilt /\ reads = 1
  /\ args.filter = Obj(<<Entry(ColStatus, Str(<<"o", "n">>)), Entry(ColId, Num(1))>>)
  /\ Len(query.eqs) = 2

(***************************************************************************)
(* C7: the translator attaches a row cap to the gateway read exactly when  *)
(* limit is present and not 0, and the cap equals limit; limit = 0 and an  *)
(* absent limit issue a read with no cap, limit = 5 caps at 5.             *)
(***************************************************************************)
C7_LimitCap ==
  ReadBuilt =>
    /\ (query.limit # Undefined) <=> (args.limit # Undefined /\ args.limit # Num(0))
    /\ query.limit # Undefined => query.limit = args.limit

C7_Witness ==
  /\ ReadBuilt /\ reads = 1
  /\ args.limit = Num(5) /\ query.limit = Num(5)

C7_WitnessZero ==
  /\ ReadBuilt /\ reads = 1
  /\ args.limit = Num(0) /\ query.limit = Undefined

(***************************************************************************)
(* C11: every response includes a plain-text summary sentence stating the  *)
(* row count and the table name: for a gateway reply of n rows from table  *)
(* t it reads "Query returned n row(s) from table 't'.", with "row"        *)
(* singular exactly when n = 1, and n = 0 when the reply has no rows.      *)
(***************************************************************************)
\* The number of rows the gateway replied with: 0 for null data and for no reply.
ReplyRowCount ==
  IF reply # Undefined /\ reply.kind = "resolved" /\ reply.data.t = "arr"
    THEN Len(reply.data.v) ELSE 0

\* "Query returned n row(s) from table 't'."
SummarySentence(n, table) ==
  <<"Query returned ">> \o NumText(n)
  \o (IF n = 1 THEN <<" row">> ELSE <<" row", "s">>)
  \o <<" from table '">> \o table \o <<"'.">>

HasSummary(r) ==
  \E item \in TextItems(r) : item.text = SummarySentence(ReplyRowCount, args.table.v)

C11_EveryResponseHasSummary == Done => HasSummary(response)

\* C11 as amended: every response without isError (the gateway replied without
\* an error and nothing was thrown) includes the summary sentence; a response
\* with isError = true carries its error message and no summary sentence.
C11_SuccessHasSummary ==
  Done =>
    IF response.isError = Bool(TRUE)
      THEN ~HasSummary(response) /\ Len(response.content) = 1
      ELSE /\ HasSummary(response)
           /\ response.content[1].type = "text"
           /\ response.content[1].text = SummarySentence(ReplyRowCount, args.table.v)

C11_Witness ==
  /\ Succeeded /\ ReplyRowCount = 2 /\ args.table = Str(TableJedi)
  /\ response.content[1].text
       = <<"Query returned ", "2", " row", "s", " from table '",
           "j", "e", "d", "i", "'.">>

C11_WitnessNull ==
  /\ Succeeded /\ reply.data = Null
  /\ response.content[1].text
       = <<"Query returned ", "0", " row", "s", " from table '",
           "j", "e", "d", "i", "'.">>

(***************************************************************************)
(* C12: for non-empty rows the header columns are exactly the keys of the  *)
(* first row in their key order, and every row, also a later row with a    *)
(* different key set, is rendered with one cell per header column in that  *)
(* order; a cell whose key the row lacks or whose value is null or         *)
(* undefined shows the literal text NULL.                                  *)
(***************************************************************************)
HasKey(row, col) == \E e \in 1..Len(row) : row[e].k = col

ValueOf(row, col) == row[CHOOSE e \in 1..Len(row) : row[e].k = col].v

C12_FirstRowColumns ==
  (Rendered /\ NonEmptyRows) =>
    LET data == rows.v
        cols == ObjectKeys(data[1])
        header == HeaderOf(html)
        body == BodyOf(html)
    IN  /\ Len(header) = Len(cols)
        /\ \A j \in 1..Len(cols) : EscapedAs(header[j], cols[j])
        /\ Len(body) = Len(data)
        /\ \A i \in 1..Len(data) :
             /\ Len(body[i]) = Len(header)
             /\ \A j \in 1..Len(cols) :
                  IF ~HasKey(data[i], cols[j])
                       \/ ValueOf(data[i], cols[j]) \in {Null, Undefined}
                    THEN body[i][j] = <<"N", "U", "L", "L">>
                    ELSE EscapedAs(body[i][j], String(ValueOf(data[i], cols[j])))

\* The second row lacks a key of the first and has a key the first lacks.
C12_Witness ==
  /\ Rendered /\ NonEmptyRows /\ Len(rows.v) = 2
  /\ ObjectKeys(rows.v[1]) = <<ColName, ColId>>
  /\ ObjectKeys(rows.v[2]) = <<ColId>>
  /\ rows.v[2][1].v = Num(1)
  /\ BodyOf(html)[2] = << <<"N", "U", "L", "L">>, <<"1">> >>

\* The first row has one key, a later row two: the later row still has one cell.
C12_WitnessExtraKey ==
  /\ Rendered /\ NonEmptyRows /\ Len(rows.v) = 2
  /\ ObjectKeys(rows.v[1]) = <<ColId>>
  /\ ObjectKeys(rows.v[2]) = <<ColName, ColId>>
  /\ rows.v[2][2].v = Null
  /\ BodyOf(html)[2] = << <<"N", "U", "L", "L">> >>

(***************************************************************************)
(* C13: in every invocation with credentials present the gateway read is   *)
(* executed exactly once and the response is produced only after that read *)
(* has completed: no response while the read is outstanding, and no second *)
(* read after an error reply or a thrown fault.                            *)
(***************************************************************************)
CredentialsPresent == ~Missing(env.url) /\ ~Missing(env.key)

NoResponseWhileReading ==
  /\ pc = "awaiting" => (reads = 1 /\ reply = Undefined /\ response = Undefined)
  /\ response # Undefined => Done

\* The credentials are present and the handler has read them.
CredentialsRead == CredentialsPresent /\ thrown.at # "env"

C13_ReadExactlyOnce ==
  /\ (Done /\ CredentialsRead) => (reads = 1 /\ reply # Undefined)
  /\ NoResponseWhileReading
  /\ reads <= 1

\* The steps of the try block that come before the read is issued.
BeforeRead == {"env", "createClient", "build"}

\* C13 as amended: the read is executed at most once in every invocation, and
\* exactly once when the credentials are present and nothing is thrown before
\* the read is issued (reading the environment, creating the client, building
\* the query); then the response is produced only after the read has completed.
\* A fault thrown before the read gives an error response without any read.
C13_ReadAtMostOnce ==
  /\ reads <= 1
  /\ NoResponseWhileReading
  /\ (Done /\ CredentialsPresent /\ thrown.at \notin BeforeRead) =>
       (reads = 1 /\ reply # Undefined)
  /\ (Done /\ (~CredentialsPresent \/ thrown.at \in BeforeRead)) =>
       (reads = 0 /\ reply = Undefined /\ response.isError = Bool(TRUE))

C13_Witness ==
  /\ GatewayErrored /\ CredentialsPresent
  /\ reads = 1 /\ clients = 1 /\ response.isError = Bool(TRUE)

C13_WitnessRejected ==
  /\ Done /\ thrown.at = "await" /\ reads = 1 /\ response.isError = Bool(TRUE)

C13_WitnessOutstanding ==
  pc = "awaiting" /\ reads = 1 /\ response = Undefined

(***************************************************************************)
(* C14: the template re-renders with the rules of the server renderer: for *)
(* every row sequence delivered as toolOutput.results, renderTable makes   *)
(* the same placeholder-versus-table choice and produces the same header   *)
(* columns, the same row count label and the same escaped cell texts       *)
(* (NULL for null or missing) as formatResultsAsTable for the same rows.   *)
(***************************************************************************)
HasClientPlaceholder(h) ==
  \E i \in 1..(Len(h) - 2) :
    /\ h[i] = "<div class=\"no-results\">"
    /\ h[i + 1] = "No results found"
    /\ h[i + 2] = "</div>"

C14_TemplateMatchesServer ==
  (Rendered /\ ClientRendered) =>
    /\ HasServerPlaceholder(html) <=> HasClientPlaceholder(clientHtml)
    /\ HasTable(html) <=> HasTable(clientHtml)
    /\ HasTable(html) <=> ~HasServerPlaceholder(html)
    /\ HeaderOf(clientHtml) = HeaderOf(html)
    /\ LabelOf(clientHtml) = LabelOf(html)
    /\ BodyOf(clientHtml) = BodyOf(html)

C14_Witness ==
  /\ Rendered /\ ClientRendered /\ NonEmptyRows /\ Len(rows.v) = 2
  /\ ObjectKeys(rows.v[1]) = <<ColName, ColId>>
  /\ ObjectKeys(rows.v[2]) = <<ColId>>
  /\ HasTable(clientHtml)
  /\ "&#039;" \in Items(BodyOf(clientHtml)[1][1])
  /\ BodyOf(clientHtml)[2][1] = <<"N", "U", "L", "L">>
  /\ BodyOf(clientHtml) = BodyOf(html)

C14_WitnessNull ==
  /\ Rendered /\ ClientRendered /\ rows = Null
  /\ HasClientPlaceholder(clientHtml) /\ HasServerPlaceholder(html)

====
